---- MODULE Spec2Model ----
(***************************************************************************)
(* The /api/workflow handler of the AI Workflow Engine worker              *)
(* (src/src/index.ts): a cache-aside lookup in a process-wide Map, an      *)
(* optional configuration fetch from a Gist, one model invocation, a cache *)
(* write and an optional KV write.                                         *)
(*                                                                         *)
(* JavaScript runs each handler to its next `await` without interruption,  *)
(* so every action below is one such synchronous stretch of one request;   *)
(* requests interleave only at the awaits (request.json, getGistConfig,    *)
(* env.AI.run, env.CONFIG.put).                                            *)
(*                                                                         *)
(* Strings are TLA+ strings, objects are functions whose DOMAIN is the set *)
(* of own keys (a missing key is `undefined`), Date.now() is `now`.        *)
(***************************************************************************)
EXTENDS Integers, Sequences, FiniteSets, TLC

(* ---------------------------------------------------------------------- *)
(* Bounds of the model                                                     *)
(* ---------------------------------------------------------------------- *)

\* Date.now() reads 0, or one TTL later plus 0..MaxSkew milliseconds: an entry
\* written at 0 is then seen before, exactly at and after its expiry.
MaxSkew == 1

\* The number of entries the Map of the second specification can hold (the
\* engine's limit, 2^24 entries in V8, scaled down to the model's few keys).
MaxMapSize == 1

\* The requests of one behaviour.
Reqs == {1, 2}

(* ---------------------------------------------------------------------- *)
(* Program constants                                                       *)
(* ---------------------------------------------------------------------- *)

DefaultModel == "@cf/meta/llama-2-7b-chat-int8"
\* Temperatures are in tenths: 7 is 0.7.
DefaultTemperature == 7
DefaultMaxTokens == 2048
PrefixLen == 50
CacheTtlSeconds == 3600
MsPerSecond == 1000

(* ---------------------------------------------------------------------- *)
(* Inputs                                                                  *)
(* ---------------------------------------------------------------------- *)

ShortPrompt == "Explain X"
\* A prompt of 51 characters: one more than the key keeps.
LongPrefix == "0123456789012345678901234567890123456789012345678_"
LongPromptA == LongPrefix \o "A"

\* The JSON objects a request body can be: every subset of the fields of
\* WorkflowRequest, each with one or more values.
PromptValues == {"", ShortPrompt, LongPromptA}
ModelValues == {"m1"}
\* Temperatures are in tenths (2 is 0.2), as DefaultTemperature is.
TemperatureValues == {2}
MaxTokensValues == {100}

BodyFields == {"prompt", "model", "temperature", "max_tokens"}

Restrict(o, D) == [k \in D |-> o[k]]

Objects == { Restrict(o, D) :
               o \in [prompt : PromptValues, model : ModelValues,
                      temperature : TemperatureValues, max_tokens : MaxTokensValues],
               D \in SUBSET BodyFields }

\* What `await request.json()` can yield: an object, or a SyntaxError.
Bodies == [kind : {"object"}, json : Objects] \cup {[kind |-> "malformed", json |-> <<>>]}

\* A second prompt with the same first 50 characters, and the bodies of the
\* requests that tell the two apart: a prompt or none, a model or none.
LongPromptB == LongPrefix \o "B, and more"

PrefixPromptValues == {"", LongPromptA, LongPromptB}

PrefixObjects == { Restrict(o, D) :
                     o \in [prompt : PrefixPromptValues, model : ModelValues],
                     D \in SUBSET {"prompt", "model"} }

PrefixBodies == [kind : {"object"}, json : PrefixObjects]
                    \cup {[kind |-> "malformed", json |-> <<>>]}

\* Bodies whose model or prompt holds the key's separator: `model` is any
\* string of the caller's, and so is `prompt`.
DelimiterModelValues == {"m1", "m1:x"}

DelimiterPromptValues == {"", "y", "x:y"}

DelimiterObjects == { Restrict(o, D) :
                        o \in [prompt : DelimiterPromptValues,
                               model : DelimiterModelValues],
                        D \in {{"model"}, {"prompt", "model"}} }

DelimiterBodies == [kind : {"object"}, json : DelimiterObjects]
                       \cup {[kind |-> "malformed", json |-> <<>>]}

\* The bodies of the requests whose progress is followed: no JSON, no
\* prompt, an empty prompt, a prompt.
ProgressObjects == { <<>>, [prompt |-> ""], [prompt |-> ShortPrompt] }

ProgressBodies == [kind : {"object"}, json : ProgressObjects]
                      \cup {[kind |-> "malformed", json |-> <<>>]}

\* The documents the Gist's first file can hold, when it parses: any JSON
\* object, with any keys. Temperatures are in tenths.
ConfigDocs == { <<>>,
                [temperature |-> 15],
                [max_tokens |-> 512, prompt |-> "configured prompt"] }

\* How the Gist fetch can end: with a document that parses (`doc`), with a
\* non-2xx status, with a network error, or with 2xx and a body from which no
\* configuration can be read.
GistOutcomes == [kind : {"ok"}, doc : ConfigDocs]
                    \cup [kind : {"non2xx", "network", "malformed"}, doc : {<<>>}]

\* What env.AI.run can resolve with.
Payloads == { [response |-> "out1"], [response |-> ""], [text |-> "t"] }

(* ---------------------------------------------------------------------- *)
(* State                                                                   *)
(* ---------------------------------------------------------------------- *)

VARIABLES
    cache,      \* the module-level Map: key -> [value, expiry]
    ledger,     \* the KV namespace env.CONFIG: key -> stored record
    now,        \* Date.now(), in milliseconds
    env,        \* which bindings the deployment has, and whether Map is bounded
    req,        \* the requests: position in the handler and live locals
    writer      \* history: key -> the request whose setCache wrote its entry

vars == <<cache, ledger, now, env, req, writer>>

TtlMs == CacheTtlSeconds * MsPerSecond

ClockValues == {0} \cup { TtlMs + s : s \in 0..MaxSkew }

NoResponse == [status |-> 0, source |-> "", result |-> "", model |-> "", error |-> ""]

\* A request before it arrives. Three fields are history, read by no action:
\* `seen` is what was in the Map for the key when getCached was called (and
\* who wrote it), `calls` counts the calls made to each collaborator, and
\* `outcome` is how each awaited call ended.
IdleReq ==
    [ pc |-> "idle", body |-> [kind |-> "none", json |-> <<>>],
      prompt |-> "", model |-> "", cacheKey |-> "",
      config |-> <<>>, aiArgs |-> <<>>, result |-> "",
      ledgerKey |-> 0,
      seen |-> [state |-> "none", at |-> 0, value |-> "", expiry |-> 0, by |-> 0],
      calls |-> [getCached |-> 0, getGistConfig |-> 0, run |-> 0,
                 setCache |-> 0, put |-> 0],
      outcome |-> [gist |-> "none", run |-> "none", set |-> "none", put |-> "none"],
      resp |-> NoResponse ]

(* ---------------------------------------------------------------------- *)
(* Pure helpers                                                            *)
(* ---------------------------------------------------------------------- *)

Min(a, b) == IF a < b THEN a ELSE b

\* String.prototype.substring(from, to) for 0 <= from <= to.
Substring(s, from, to) == SubSeq(s, from + 1, Min(to, Len(s)))

Has(o, f) == f \in DOMAIN o

\* Variant: only `undefined` counts as falsy.
TruthyIfDefined(o, f) == Has(o, f)

\* `!prompt`: undefined and "" are falsy.
Truthy(o, f) == Has(o, f) /\ o[f] # ""

\* Destructuring with a default: the default applies to a missing field only.
FieldOr(o, f, default) == IF Has(o, f) THEN o[f] ELSE default

\* Variant: the key keeps the whole prompt.
CacheKeyOfWholePrompt(model, prompt) == "ai:" \o model \o ":" \o prompt

\* const cacheKey = `ai:${model}:${prompt.substring(0, 50)}`
CacheKeyOf(model, prompt) == "ai:" \o model \o ":" \o Substring(prompt, 0, PrefixLen)

\* Variants of the expiry test: off by one, reversed, and absent.
ExpiredFromExpiryOn(item, t) == t >= item.expiry

ExpiredWhileValid(item, t) == t < item.expiry

NeverExpired(item, t) == FALSE

\* Date.now() > item.expiry
Expired(item, t) == t > item.expiry

Null == [isNull |-> TRUE, value |-> ""]

\* What getCached(key) returns at time t.
getCached(c, key, t) ==
    IF key \notin DOMAIN c THEN Null
    ELSE IF Expired(c[key], t) THEN Null
    ELSE [isNull |-> FALSE, value |-> c[key].value]

\* Variant: every read sweeps all the entries that have expired.
CacheAfterGetSweeps(c, key, t) ==
    [k \in {x \in DOMAIN c : ~Expired(c[x], t)} |-> c[k]]

\* Variant: a read of an entry that has not expired renews its expiry (a
\* sliding TTL).
CacheAfterGetRenews(c, key, t) ==
    IF key \notin DOMAIN c THEN c
    ELSE IF Expired(c[key], t) THEN [k \in DOMAIN c \ {key} |-> c[k]]
    ELSE [c EXCEPT ![key].expiry = t + TtlMs]

\* The Map after getCached(key) at time t: an expired entry is deleted.
CacheAfterGet(c, key, t) ==
    IF key \in DOMAIN c /\ Expired(c[key], t)
    THEN [k \in DOMAIN c \ {key} |-> c[k]]
    ELSE c

\* `if (cached)`: null and "" are falsy.
IsHit(cached) == ~cached.isNull /\ cached.value # ""

\* Variant: the TTL in seconds is added to a time in milliseconds.
setCacheTtlUnscaled(c, key, value, ttl, t) ==
    [k \in DOMAIN c \cup {key} |->
        IF k = key THEN [value |-> value, expiry |-> t + ttl] ELSE c[k]]

\* Variant: the first writer of a key wins while its entry is in the Map.
setCacheIfAbsent(c, key, value, ttl, t) ==
    [k \in DOMAIN c \cup {key} |->
        IF k = key /\ k \notin DOMAIN c
        THEN [value |-> value, expiry |-> t + (ttl * MsPerSecond)] ELSE c[k]]

\* cache.set(key, { value, expiry: Date.now() + (ttl * 1000) })
setCache(c, key, value, ttl, t) ==
    [k \in DOMAIN c \cup {key} |->
        IF k = key THEN [value |-> value, expiry |-> t + (ttl * MsPerSecond)] ELSE c[k]]

\* Whether cache.set(key, ...) returns: it does on an unbounded Map, for a key
\* the Map holds, and while the Map has room.
SetReturns(c, key, bounded) ==
    \/ ~bounded
    \/ key \in DOMAIN c
    \/ Cardinality(DOMAIN c) < MaxMapSize

\* What getGistConfig resolves with: the parsed document, or {} on any failure.
getGistConfig(outcome) == IF outcome.kind = "ok" THEN outcome.doc ELSE <<>>

\* { ...base, ...over }: later keys win.
Spread(base, over) ==
    [k \in DOMAIN base \cup DOMAIN over |-> IF k \in DOMAIN over THEN over[k] ELSE base[k]]

\* The second argument of env.AI.run:
\* { prompt, temperature, max_tokens, ...config }
AiArgs(json, config) ==
    Spread([prompt |-> json.prompt,
            temperature |-> FieldOr(json, "temperature", DefaultTemperature),
            max_tokens |-> FieldOr(json, "max_tokens", DefaultMaxTokens)],
           config)

\* JSON.stringify of a payload with at most one (string) field.
JSONStringify(p) ==
    IF DOMAIN p = {} THEN "{}"
    ELSE LET k == CHOOSE f \in DOMAIN p : TRUE
         IN "{\"" \o k \o "\":\"" \o p[k] \o "\"}"

\* Variant: the field is taken whenever it is present (`??`), empty or not.
ResultOfIfPresent(p) == IF Has(p, "response") THEN p.response ELSE JSONStringify(p)

\* const result = aiResponse.response || JSON.stringify(aiResponse)
ResultOf(p) == IF Truthy(p, "response") THEN p.response ELSE JSONStringify(p)

\* `workflow:${Date.now()}`: the key is the millisecond of the call.
LedgerKeyOf(t) == "workflow:" \o ToString(t)

(* ---------------------------------------------------------------------- *)
(* Initial state                                                           *)
(* ---------------------------------------------------------------------- *)

\* A fresh isolate: empty Map, empty namespace. env.GIST_ID/GITHUB_TOKEN and
\* env.CONFIG are set or not by the deployment. Map is the Map of ECMAScript,
\* which holds any number of entries.
Init ==
    /\ cache = <<>>
    /\ ledger = <<>>
    /\ now = 0
    /\ env \in [gist : BOOLEAN, kv : BOOLEAN, mapBounded : {FALSE}]
    /\ req = [i \in Reqs |-> IdleReq]
    /\ writer = <<>>

\* The same isolate on an engine whose Map.prototype.set throws a RangeError
\* once the Map holds its maximum number of entries.
InitMapLimit ==
    /\ cache = <<>>
    /\ ledger = <<>>
    /\ now = 0
    /\ env \in [gist : BOOLEAN, kv : BOOLEAN, mapBounded : {TRUE}]
    /\ req = [i \in Reqs |-> IdleReq]
    /\ writer = <<>>

(* ---------------------------------------------------------------------- *)
(* Responses                                                               *)
(* ---------------------------------------------------------------------- *)

BadRequest == [NoResponse EXCEPT !.status = 400, !.error = "Prompt is required"]

\* The catch of /api/workflow: error.message || 'Internal server error'.
ServerError(message) ==
    [NoResponse EXCEPT !.status = 500,
                       !.error = IF message = "" THEN "Internal server error" ELSE message]

Ok(result, source, model) ==
    [NoResponse EXCEPT !.status = 200, !.result = result, !.source = source, !.model = model]

\* Once env.AI.run has settled, the body, the configuration and the arguments
\* of the call are read no more; of the body, prompt and model stay live.
Forget(r) == [r EXCEPT !.body = IdleReq.body, !.config = <<>>, !.aiArgs = <<>>]

Count(r, what) == [r.calls EXCEPT ![what] = @ + 1]

\* What a getCached(key) call finds in the Map, for the record: the entry,
\* its writer and the time of the call when there is an entry with
\* expiry >= now, and otherwise only whether the key was absent or its entry
\* out of date.
Observe(key) ==
    IF key \notin DOMAIN cache THEN [IdleReq.seen EXCEPT !.state = "absent"]
    ELSE IF now > cache[key].expiry THEN [IdleReq.seen EXCEPT !.state = "expired"]
    ELSE [state |-> "fresh", at |-> now, value |-> cache[key].value,
          expiry |-> cache[key].expiry, by |-> writer[key]]

\* The history of writers follows the Map.
WriterAfter(c, w, key, i) ==
    [k \in DOMAIN c |-> IF k = key /\ i # 0 THEN i ELSE w[k]]

(* ---------------------------------------------------------------------- *)
(* Actions: one per synchronous stretch of the handler                     *)
(* ---------------------------------------------------------------------- *)

\* Requests are interchangeable: they are numbered in the order in which
\* their bodies finish parsing, which is the order of their first access to
\* shared state.
Parsed(i) == req[i].pc \notin {"idle", "parsing"}

Turn(i) == req[i].pc = "parsing" /\ \A j \in Reqs : j < i => Parsed(j)

\* A POST /api/workflow arrives; the handler runs to `await request.json()`.
Receive(i) ==
    /\ req[i].pc = "idle"
    /\ \A j \in Reqs : j < i => req[j].pc # "idle"
    /\ req' = [req EXCEPT ![i].pc = "parsing"]
    /\ UNCHANGED <<cache, ledger, now, env, writer>>

\* request.json() rejects (the body is no JSON): the catch answers 500.
ParseFail(i, b) ==
    /\ Turn(i)
    /\ b.kind = "malformed"
    /\ req' = [req EXCEPT ![i].pc = "done", ![i].body = b,
                          ![i].resp = ServerError("Unexpected token")]
    /\ UNCHANGED <<cache, ledger, now, env, writer>>

\* request.json() resolves with an object without a truthy prompt: 400.
Reject(i, b) ==
    /\ Turn(i)
    /\ b.kind = "object"
    /\ ~Truthy(b.json, "prompt")
    /\ req' = [req EXCEPT ![i].pc = "done", ![i].body = b, ![i].resp = BadRequest]
    /\ UNCHANGED <<cache, ledger, now, env, writer>>

\* Variant: a hit writes the entry back with a new expiry (a sliding TTL).
CacheHitRewritesEntry(i, b) ==
    /\ Turn(i)
    /\ b.kind = "object"
    /\ Truthy(b.json, "prompt")
    /\ LET json == b.json
           model == FieldOr(json, "model", DefaultModel)
           key == CacheKeyOf(model, json.prompt)
           cached == getCached(cache, key, now)
       IN /\ IsHit(cached)
          /\ cache' = setCache(CacheAfterGet(cache, key, now), key, cached.value,
                               CacheTtlSeconds, now)
          /\ writer' = WriterAfter(cache', writer, key, 0)
          /\ req' = [req EXCEPT ![i].pc = "done",
                                ![i].prompt = json.prompt,
                                ![i].model = model,
                                ![i].cacheKey = key,
                                ![i].seen = Observe(key),
                                ![i].calls = Count(req[i], "getCached"),
                                ![i].resp = Ok(cached.value, "cache", model)]
    /\ UNCHANGED <<ledger, now, env>>

\* request.json() resolves with an object that has a prompt, and getCached
\* returns a value: the response is built from it.
CacheHit(i, b) ==
    /\ Turn(i)
    /\ b.kind = "object"
    /\ Truthy(b.json, "prompt")
    /\ LET json == b.json
           model == FieldOr(json, "model", DefaultModel)
           key == CacheKeyOf(model, json.prompt)
           cached == getCached(cache, key, now)
       IN /\ IsHit(cached)
          /\ cache' = CacheAfterGet(cache, key, now)
          /\ writer' = WriterAfter(cache', writer, key, 0)
          /\ req' = [req EXCEPT ![i].pc = "done",
                                ![i].prompt = json.prompt,
                                ![i].model = model,
                                ![i].cacheKey = key,
                                ![i].seen = Observe(key),
                                ![i].calls = Count(req[i], "getCached"),
                                ![i].resp = Ok(cached.value, "cache", model)]
    /\ UNCHANGED <<ledger, now, env>>

\* request.json() resolves with an object that has a prompt, and getCached
\* returns nothing: with GIST_ID and GITHUB_TOKEN set the handler awaits
\* getGistConfig, otherwise it calls env.AI.run with config = {}.
CacheMiss(i, b) ==
    /\ Turn(i)
    /\ b.kind = "object"
    /\ Truthy(b.json, "prompt")
    /\ LET json == b.json
           model == FieldOr(json, "model", DefaultModel)
           key == CacheKeyOf(model, json.prompt)
           cached == getCached(cache, key, now)
           r == [req[i] EXCEPT !.body = b,
                               !.prompt = json.prompt,
                               !.model = model,
                               !.cacheKey = key,
                               !.seen = Observe(key),
                               !.calls = Count(req[i], "getCached")]
       IN /\ ~IsHit(cached)
          /\ cache' = CacheAfterGet(cache, key, now)
          /\ writer' = WriterAfter(cache', writer, key, 0)
          /\ req' = [req EXCEPT ![i] =
                        IF env.gist
                        THEN [r EXCEPT !.pc = "config",
                                       !.calls = Count(r, "getGistConfig"),
                                       !.outcome.gist = "pending"]
                        ELSE [r EXCEPT !.pc = "ai",
                                       !.aiArgs = AiArgs(json, <<>>),
                                       !.calls = Count(r, "run"),
                                       !.outcome.run = "pending"]]
    /\ UNCHANGED <<ledger, now, env>>

\* Variant: getGistConfig without its try/catch, so that a failed fetch
\* reaches the catch of /api/workflow.
ConfigReturnSurfacesFailure(i, outcome) ==
    /\ req[i].pc = "config"
    /\ LET config == getGistConfig(outcome)
       IN req' = [req EXCEPT ![i] =
                    IF outcome.kind = "ok"
                    THEN [req[i] EXCEPT !.pc = "ai",
                                        !.config = config,
                                        !.aiArgs = AiArgs(req[i].body.json, config),
                                        !.calls = Count(req[i], "run"),
                                        !.outcome.gist = "ok",
                                        !.outcome.run = "pending"]
                    ELSE [Forget(req[i]) EXCEPT !.pc = "done",
                                                !.outcome.gist = "failed",
                                                !.resp = ServerError("Gist error")]]
    /\ UNCHANGED <<cache, ledger, now, env, writer>>

\* Variant: a failed fetch is tried again.
ConfigReturnRetriesFailure(i, outcome) ==
    /\ req[i].pc = "config"
    /\ LET config == getGistConfig(outcome)
       IN req' = [req EXCEPT ![i] =
                    IF outcome.kind = "ok"
                    THEN [req[i] EXCEPT !.pc = "ai",
                                        !.config = config,
                                        !.aiArgs = AiArgs(req[i].body.json, config),
                                        !.calls = Count(req[i], "run"),
                                        !.outcome.gist = "ok",
                                        !.outcome.run = "pending"]
                    ELSE [req[i] EXCEPT !.calls = Count(req[i], "getGistConfig"),
                                        !.outcome.gist = "failed"]]
    /\ UNCHANGED <<cache, ledger, now, env, writer>>

\* getGistConfig resolves, with the parsed document or with {}; the handler
\* calls env.AI.run with the merged parameters.
ConfigReturn(i, outcome) ==
    /\ req[i].pc = "config"
    /\ LET config == getGistConfig(outcome)
       IN req' = [req EXCEPT ![i].pc = "ai",
                             ![i].config = config,
                             ![i].aiArgs = AiArgs(req[i].body.json, config),
                             ![i].calls = Count(req[i], "run"),
                             ![i].outcome.gist =
                                 IF outcome.kind = "ok" THEN "ok" ELSE "failed",
                             ![i].outcome.run = "pending"]
    /\ UNCHANGED <<cache, ledger, now, env, writer>>

\* Variant: a rejected env.AI.run is called again.
ModelFailRetries(i) ==
    /\ req[i].pc = "ai"
    /\ req' = [req EXCEPT ![i].calls = Count(req[i], "run")]
    /\ UNCHANGED <<cache, ledger, now, env, writer>>

\* Variant: a rejected env.AI.run is called again, without limit; of the
\* attempts the history keeps only whether the pending one is the first or
\* a later one.
ModelFailRetriesForever(i) ==
    /\ req[i].pc = "ai"
    /\ req' = [req EXCEPT ![i].outcome.run =
                  IF @ = "pending" THEN "pending again" ELSE "pending"]
    /\ UNCHANGED <<cache, ledger, now, env, writer>>

\* env.AI.run rejects: the catch answers 500 with the error's message.
ModelFail(i) ==
    /\ req[i].pc = "ai"
    /\ req' = [req EXCEPT ![i] = [Forget(req[i]) EXCEPT !.pc = "done",
                                                        !.outcome.run = "rejected",
                                                        !.resp = ServerError("AI error")]]
    /\ UNCHANGED <<cache, ledger, now, env, writer>>

\* Variant: the put is started and not awaited (ctx.waitUntil), and the
\* handler answers at once.
ModelReturnAnswersBeforePut(i, p) ==
    /\ req[i].pc = "ai"
    /\ SetReturns(cache, req[i].cacheKey, env.mapBounded)
    /\ LET result == ResultOf(p)
           r == [Forget(req[i]) EXCEPT !.result = result,
                                       !.calls = Count(req[i], "setCache"),
                                       !.outcome.run = "resolved",
                                       !.outcome.set = "returned",
                                       !.pc = "done",
                                       !.resp = Ok(result, "ai", req[i].model)]
       IN /\ cache' = setCache(cache, req[i].cacheKey, result, CacheTtlSeconds, now)
          /\ writer' = WriterAfter(cache', writer, req[i].cacheKey, i)
          /\ req' = [req EXCEPT ![i] =
                        IF env.kv
                        THEN [r EXCEPT !.calls = Count(r, "put"),
                                       !.outcome.put = "pending"]
                        ELSE r]
    /\ UNCHANGED <<ledger, now, env>>

\* env.AI.run resolves with payload p: the result is extracted and cached;
\* with env.CONFIG the handler awaits the put, otherwise it answers.
ModelReturn(i, p) ==
    /\ req[i].pc = "ai"
    /\ SetReturns(cache, req[i].cacheKey, env.mapBounded)
    /\ LET result == ResultOf(p)
           r == [Forget(req[i]) EXCEPT !.result = result,
                                       !.calls = Count(req[i], "setCache"),
                                       !.outcome.run = "resolved",
                                       !.outcome.set = "returned"]
       IN /\ cache' = setCache(cache, req[i].cacheKey, result, CacheTtlSeconds, now)
          /\ writer' = WriterAfter(cache', writer, req[i].cacheKey, i)
          /\ req' = [req EXCEPT ![i] =
                        IF env.kv
                        THEN [r EXCEPT !.pc = "ledger",
                                       !.ledgerKey = now,
                                       !.calls = Count(r, "put"),
                                       !.outcome.put = "pending"]
                        ELSE [r EXCEPT !.pc = "done",
                                       !.resp = Ok(result, "ai", r.model)]]
    /\ UNCHANGED <<ledger, now, env>>

\* env.AI.run resolves with payload p and cache.set throws inside setCache:
\* nothing catches it before the catch of /api/workflow, which answers 500.
CacheWriteThrows(i, p) ==
    /\ req[i].pc = "ai"
    /\ ~SetReturns(cache, req[i].cacheKey, env.mapBounded)
    /\ req' = [req EXCEPT ![i] =
                  [Forget(req[i]) EXCEPT !.pc = "done",
                                         !.result = ResultOf(p),
                                         !.calls = Count(req[i], "setCache"),
                                         !.outcome.run = "resolved",
                                         !.outcome.set = "threw",
                                         !.resp = ServerError("Map maximum size exceeded")]]
    /\ UNCHANGED <<cache, ledger, now, env, writer>>

\* env.CONFIG.put resolves: the record is stored under its key.
LedgerOk(i) ==
    /\ req[i].pc = "ledger"
    /\ LET key == LedgerKeyOf(req[i].ledgerKey)
           record == [prompt |-> req[i].prompt, result |-> req[i].result,
                      model |-> req[i].model, timestamp |-> req[i].ledgerKey]
       IN ledger' = [k \in DOMAIN ledger \cup {key} |->
                        IF k = key THEN record ELSE ledger[k]]
    /\ req' = [req EXCEPT ![i].pc = "done",
                          ![i].ledgerKey = 0,
                          ![i].outcome.put = "stored",
                          ![i].resp = Ok(req[i].result, "ai", req[i].model)]
    /\ UNCHANGED <<cache, now, env, writer>>

\* Variant: the put without its try/catch, so that a rejected put reaches
\* the catch of /api/workflow.
LedgerFailSurfaces(i) ==
    /\ req[i].pc = "ledger"
    /\ req' = [req EXCEPT ![i].pc = "done",
                          ![i].ledgerKey = 0,
                          ![i].outcome.put = "failed",
                          ![i].resp = ServerError("KV error")]
    /\ UNCHANGED <<cache, ledger, now, env, writer>>

\* env.CONFIG.put rejects: the inner catch logs, the handler answers.
LedgerFail(i) ==
    /\ req[i].pc = "ledger"
    /\ req' = [req EXCEPT ![i].pc = "done",
                          ![i].ledgerKey = 0,
                          ![i].outcome.put = "failed",
                          ![i].resp = Ok(req[i].result, "ai", req[i].model)]
    /\ UNCHANGED <<cache, ledger, now, env, writer>>

\* The clock advances.
Tick ==
    /\ \E t \in ClockValues : t > now /\ now' = t
    /\ UNCHANGED <<cache, ledger, env, req, writer>>

Next ==
    \/ \E i \in Reqs : Receive(i)
    \/ \E i \in Reqs, b \in Bodies : ParseFail(i, b)
    \/ \E i \in Reqs, b \in Bodies : Reject(i, b)
    \/ \E i \in Reqs, b \in Bodies : CacheHit(i, b)
    \/ \E i \in Reqs, b \in Bodies : CacheMiss(i, b)
    \/ \E i \in Reqs, o \in GistOutcomes : ConfigReturn(i, o)
    \/ \E i \in Reqs : ModelFail(i)
    \/ \E i \in Reqs, p \in Payloads : ModelReturn(i, p)
    \/ \E i \in Reqs : LedgerOk(i)
    \/ \E i \in Reqs : LedgerFail(i)
    \/ Tick

Spec == Init /\ [][Next]_vars

NextMapLimit ==
    \/ Next
    \/ \E i \in Reqs, p \in Payloads : CacheWriteThrows(i, p)

SpecMapLimit == InitMapLimit /\ [][NextMapLimit]_vars

\* The same handler, isolate and collaborators, with requests whose prompts
\* share their first 50 characters.
NextPrefix ==
    \/ \E i \in Reqs : Receive(i)
    \/ \E i \in Reqs, b \in PrefixBodies : ParseFail(i, b)
    \/ \E i \in Reqs, b \in PrefixBodies : Reject(i, b)
    \/ \E i \in Reqs, b \in PrefixBodies : CacheHit(i, b)
    \/ \E i \in Reqs, b \in PrefixBodies : CacheMiss(i, b)
    \/ \E i \in Reqs, o \in GistOutcomes : ConfigReturn(i, o)
    \/ \E i \in Reqs : ModelFail(i)
    \/ \E i \in Reqs, p \in Payloads : ModelReturn(i, p)
    \/ \E i \in Reqs : LedgerOk(i)
    \/ \E i \in Reqs : LedgerFail(i)
    \/ Tick

SpecPrefix == Init /\ [][NextPrefix]_vars

\* The same handler, isolate and collaborators, with requests whose model or
\* prompt holds a colon.
NextDelimiter ==
    \/ \E i \in Reqs : Receive(i)
    \/ \E i \in Reqs, b \in DelimiterBodies : ParseFail(i, b)
    \/ \E i \in Reqs, b \in DelimiterBodies : Reject(i, b)
    \/ \E i \in Reqs, b \in DelimiterBodies : CacheHit(i, b)
    \/ \E i \in Reqs, b \in DelimiterBodies : CacheMiss(i, b)
    \/ \E i \in Reqs, o \in GistOutcomes : ConfigReturn(i, o)
    \/ \E i \in Reqs : ModelFail(i)
    \/ \E i \in Reqs, p \in Payloads : ModelReturn(i, p)
    \/ \E i \in Reqs : LedgerOk(i)
    \/ \E i \in Reqs : LedgerFail(i)
    \/ Tick

SpecDelimiter == Init /\ [][NextDelimiter]_vars

\* The same handler, isolate and collaborators, with the promise of each
\* awaited call settled in the end: request.json(), getGistConfig (its fetch
\* resolves or rejects), env.AI.run and env.CONFIG.put. Nothing obliges a
\* request to arrive or the clock to advance.
ParseSettles(i) ==
    \E b \in ProgressBodies :
        ParseFail(i, b) \/ Reject(i, b) \/ CacheHit(i, b) \/ CacheMiss(i, b)

ConfigSettles(i) == \E o \in GistOutcomes : ConfigReturn(i, o)

ModelSettles(i) == ModelFail(i) \/ \E p \in Payloads : ModelReturn(i, p)

LedgerSettles(i) == LedgerOk(i) \/ LedgerFail(i)

NextProgress ==
    \/ \E i \in Reqs : Receive(i)
    \/ \E i \in Reqs : ParseSettles(i)
    \/ \E i \in Reqs : ConfigSettles(i)
    \/ \E i \in Reqs : ModelSettles(i)
    \/ \E i \in Reqs : LedgerSettles(i)
    \/ Tick

CallsSettle ==
    \A i \in Reqs :
        /\ WF_vars(ParseSettles(i))
        /\ WF_vars(ConfigSettles(i))
        /\ WF_vars(ModelSettles(i))
        /\ WF_vars(LedgerSettles(i))

SpecProgress == Init /\ [][NextProgress]_vars /\ CallsSettle

(* ---------------------------------------------------------------------- *)
(* Properties                                                              *)
(* ---------------------------------------------------------------------- *)

Done(i) == req[i].pc = "done"

OnlyLookedUp == [IdleReq.calls EXCEPT !.getCached = 1]

\* C1: a request whose lookup finds an entry that has not expired answers
\* with that entry's value and source "cache", and calls neither
\* getGistConfig, env.AI.run, setCache nor env.CONFIG.put.
C1_HitServesEntryWithoutCalls ==
    \A i \in Reqs :
        req[i].seen.state = "fresh" =>
            /\ Done(i)
            /\ req[i].resp = Ok(req[i].seen.value, "cache", req[i].model)
            /\ req[i].calls = OnlyLookedUp

C1_Witness ==
    \E i \in Reqs :
        /\ req[i].seen.state = "fresh"
        /\ req[i].resp.source = "cache"
        /\ req[i].seen.at = req[i].seen.expiry

\* What the merge of the claim gives for field f: the request's value, else
\* the configuration's, else the default.
Precedence(json, config, f, default) ==
    IF Has(json, f) THEN json[f]
    ELSE IF Has(config, f) THEN config[f] ELSE default

\* C2: each of temperature and max_tokens passed to env.AI.run is the
\* request's value if the request has one, otherwise the configuration's if it
\* has one, otherwise the default.
C2_RequestOverridesConfig ==
    \A i \in Reqs :
        req[i].pc = "ai" =>
            /\ req[i].aiArgs.temperature =
                   Precedence(req[i].body.json, req[i].config,
                              "temperature", DefaultTemperature)
            /\ req[i].aiArgs.max_tokens =
                   Precedence(req[i].body.json, req[i].config,
                              "max_tokens", DefaultMaxTokens)

NoPrompt(b) ==
    /\ b.kind = "object"
    /\ ~Has(b.json, "prompt") \/ b.json.prompt = ""

\* C3: once the body of a request is parsed and has no prompt or an empty
\* one, the request ends with status 400 in that same step, having called
\* nothing (no getCached either), and the cache and the ledger are unchanged.
C3_EmptyPromptRejected ==
    [][\A i \in Reqs :
          (req[i].pc = "parsing" /\ req'[i].pc # "parsing" /\ NoPrompt(req'[i].body)) =>
              /\ req'[i].pc = "done"
              /\ req'[i].resp = BadRequest
              /\ req'[i].calls = IdleReq.calls
              /\ cache' = cache
              /\ ledger' = ledger]_vars

C3_Witness ==
    \E i \in Reqs :
        /\ Done(i)
        /\ req[i].resp.status = 400
        /\ req[i].body.json = [prompt |-> "", model |-> "m1", temperature |-> 2]
        /\ cache # <<>>

\* C4: when request j has computed result r for (m, p) and request i with the
\* same (m, p) looks the key up while the entry j wrote is still the key's
\* entry and has not expired, i answers r with source "cache" and does not
\* call env.AI.run.
C4_RepeatServedFromCache ==
    \A i, j \in Reqs :
        ( /\ i # j
          /\ req[i].seen.state = "fresh"
          /\ req[i].seen.by = j
          /\ req[i].prompt = req[j].prompt
          /\ req[i].model = req[j].model ) =>
            /\ Done(i)
            /\ req[i].resp = Ok(req[j].result, "cache", req[j].model)
            /\ req[i].calls.run = 0

C4_Witness ==
    \E i, j \in Reqs :
        /\ i # j
        /\ req[j].resp.source = "ai"
        /\ req[j].prompt = LongPromptA
        /\ req[i].prompt = LongPromptA
        /\ req[i].model = req[j].model
        /\ req[i].seen.by = j
        /\ req[i].resp.source = "cache"

\* C5: a response with source "cache" carries the value of an entry whose
\* expiry was not earlier than the time of the lookup, and getCached returns
\* null for every key whose entry has expiry < now.
C5_NoExpiredEntryServed ==
    /\ \A i \in Reqs :
          req[i].resp.source = "cache" =>
              /\ req[i].seen.state = "fresh"
              /\ req[i].seen.at <= req[i].seen.expiry
              /\ req[i].resp.result = req[i].seen.value
    /\ \A k \in DOMAIN cache, t \in ClockValues :
          cache[k].expiry < t => getCached(cache, k, t) = Null

C5_Witness ==
    \E i \in Reqs :
        /\ req[i].seen.state = "expired"
        /\ req[i].resp.source = "ai"
        /\ req[i].cacheKey \in DOMAIN cache
        /\ cache[req[i].cacheKey].expiry > now

\* C6: a request that finds an expired entry under its key goes on as on an
\* absent key (to the configuration fetch or the model call); when
\* env.AI.run resolves, the key's entry becomes the new result with a new
\* expiry, and the response has source "ai".
C6_ExpiredTreatedAsAbsent ==
    [][\A i \in Reqs :
          /\ (req[i].pc = "parsing" /\ req'[i].seen.state = "expired") =>
                /\ req'[i].pc = IF env.gist THEN "config" ELSE "ai"
                /\ req'[i].calls.run = IF env.gist THEN 0 ELSE 1
          /\ (req[i].seen.state = "expired" /\ req[i].pc = "ai"
                /\ req'[i].outcome.run = "resolved") =>
                /\ req'[i].calls.run = 1
                /\ req[i].cacheKey \in DOMAIN cache'
                /\ cache'[req[i].cacheKey] =
                       [value |-> req'[i].result, expiry |-> now + TtlMs]
          /\ (req[i].seen.state = "expired" /\ ~Done(i) /\ req'[i].pc = "done"
                /\ req'[i].outcome.run = "resolved") =>
                req'[i].resp = Ok(req'[i].result, "ai", req'[i].model)]_vars

C6_Witness ==
    \E i \in Reqs :
        /\ req[i].seen.state = "expired"
        /\ Done(i)
        /\ req[i].resp.source = "ai"
        /\ req[i].cacheKey \in DOMAIN cache
        /\ cache[req[i].cacheKey].value = req[i].result
        /\ \E j \in Reqs : j # i /\ req[j].cacheKey = req[i].cacheKey
                              /\ req[j].result # req[i].result

\* C7: a request whose env.AI.run call rejects ends with status 500 and the
\* error's message, has called env.AI.run once, and has called neither
\* setCache nor env.CONFIG.put; no request calls env.AI.run twice.
C7_ModelFailureSurfaced ==
    \A i \in Reqs :
        /\ req[i].calls.run <= 1
        /\ req[i].outcome.run = "rejected" =>
              /\ Done(i)
              /\ req[i].resp = ServerError("AI error")
              /\ req[i].calls.run = 1
              /\ req[i].calls.setCache = 0
              /\ req[i].calls.put = 0
              /\ \A k \in DOMAIN writer : writer[k] # i

C7_Witness ==
    \E i \in Reqs :
        /\ req[i].outcome.run = "rejected"
        /\ req[i].resp.status = 500
        /\ req[i].seen.state = "expired"

\* C8: a request whose configuration fetch failed calls env.AI.run with the
\* empty configuration, and answers 200 with source "ai" whenever that call
\* resolves; it answers 500 only if that call rejects.
C8_ConfigFailureDegrades ==
    \A i \in Reqs :
        req[i].outcome.gist = "failed" =>
            /\ req[i].pc \in {"ai", "ledger", "done"}
            /\ req[i].calls.run = 1
            /\ req[i].calls.getGistConfig = 1
            /\ req[i].pc = "ai" =>
                  /\ req[i].config = <<>>
                  /\ req[i].aiArgs = AiArgs(req[i].body.json, <<>>)
            /\ (Done(i) /\ req[i].outcome.run = "resolved") =>
                  req[i].resp = Ok(req[i].result, "ai", req[i].model)
            /\ (Done(i) /\ req[i].resp.status # 200) =>
                  req[i].outcome.run = "rejected"

C8_Witness ==
    \E i \in Reqs :
        /\ req[i].outcome.gist = "failed"
        /\ Done(i)
        /\ req[i].resp.source = "ai"

\* C9: a request whose cache write failed after env.AI.run resolved answers
\* 200 with source "ai" and the model's result.
C9_CacheWriteFailureSwallowed ==
    \A i \in Reqs :
        (Done(i) /\ req[i].outcome.run = "resolved" /\ req[i].outcome.set = "threw") =>
            req[i].resp = Ok(req[i].result, "ai", req[i].model)

\* C10: when env.CONFIG.put rejects, the request answers 200 with source
\* "ai" and the cache is as it was; without env.CONFIG, the request answers 200
\* with source "ai" in the step that caches its result, and puts nothing.
C10_LedgerOptional ==
    [][\A i \in Reqs :
          /\ (req[i].pc = "ledger" /\ req'[i].outcome.put = "failed") =>
                /\ req'[i].pc = "done"
                /\ req'[i].resp = Ok(req[i].result, "ai", req[i].model)
                /\ cache' = cache
          /\ (~env.kv /\ req[i].pc = "ai" /\ req'[i].outcome.run = "resolved") =>
                /\ req'[i].pc = "done"
                /\ req'[i].resp = Ok(req'[i].result, "ai", req'[i].model)
                /\ req'[i].calls.put = 0
                /\ req[i].cacheKey \in DOMAIN cache'
                /\ cache'[req[i].cacheKey].value = req'[i].result]_vars

C10_Witness ==
    \E i \in Reqs :
        /\ req[i].outcome.put = "failed"
        /\ req[i].resp.source = "ai"
        /\ req[i].cacheKey \in DOMAIN cache
        /\ cache[req[i].cacheKey].value = req[i].result

\* C11: a request that has answered has answered 200, or 400 to a body
\* without a prompt, or 500 after its env.AI.run call rejected; nothing else
\* ends in an error response.
C11_OnlyInputAndModelErrors ==
    \A i \in Reqs :
        Done(i) =>
            \/ req[i].resp.status = 200
            \/ /\ req[i].resp = BadRequest
               /\ NoPrompt(req[i].body)
            \/ /\ req[i].resp.status = 500
               /\ req[i].outcome.run = "rejected"

\* C12: the records of env.CONFIG only accumulate: a step leaves every stored
\* record in place and unchanged, and every env.CONFIG.put that resolves adds
\* one record to them.
C12_LedgerAppendOnly ==
    [][/\ \A k \in DOMAIN ledger : k \in DOMAIN ledger' /\ ledger'[k] = ledger[k]
       /\ \A i \in Reqs :
             (req[i].pc = "ledger" /\ req'[i].outcome.put = "stored") =>
                 Cardinality(DOMAIN ledger') = Cardinality(DOMAIN ledger) + 1]_vars

\* C13: the step in which a request calls env.CONFIG.put has already put the
\* request's result in the Map and answers nothing; the step in which a
\* request answers with source "ai" comes after setCache and, with
\* env.CONFIG, after its put has resolved or rejected.
C13_CacheThenLedgerThenAnswer ==
    [][\A i \in Reqs :
          /\ (req[i].calls.put = 0 /\ req'[i].calls.put = 1) =>
                /\ req'[i].calls.setCache = 1
                /\ req'[i].outcome.set = "returned"
                /\ req'[i].cacheKey \in DOMAIN cache'
                /\ cache'[req'[i].cacheKey].value = req'[i].result
                /\ req'[i].resp = NoResponse
          /\ (req[i].resp = NoResponse /\ req'[i].resp.source = "ai") =>
                /\ req'[i].calls.setCache = 1
                /\ env.kv => /\ req[i].calls.put = 1
                             /\ req[i].outcome.put = "pending"
                             /\ req'[i].outcome.put \in {"stored", "failed"}]_vars

C13_Witness ==
    \E i \in Reqs :
        /\ Done(i)
        /\ req[i].resp.source = "ai"
        /\ req[i].outcome.set = "returned"
        /\ req[i].outcome.put = "stored"
        /\ \E k \in DOMAIN ledger : ledger[k].result = req[i].result

\* The step request i takes next is enabled, whatever the other requests do.
CanProceed(i) ==
    /\ req[i].pc = "config" => ENABLED (\E o \in GistOutcomes : ConfigReturn(i, o))
    /\ req[i].pc = "ai" => /\ ENABLED (\E p \in Payloads : ModelReturn(i, p))
                           /\ ENABLED ModelFail(i)
    /\ req[i].pc = "ledger" => ENABLED LedgerOk(i) /\ ENABLED LedgerFail(i)

\* C14: of two requests that both found their common key absent, each calls
\* env.AI.run once, can take its next step whatever the state of the other,
\* and answers 200 with source "ai" and its own result when its call
\* resolves; the entry of the key holds the result of the request whose
\* setCache ran last.
C14_OverlappingRequestsDoNotCoordinate ==
    \A i, j \in Reqs :
        (/\ i # j
         /\ req[i].cacheKey = req[j].cacheKey
         /\ req[i].seen.state = "absent"
         /\ req[j].seen.state = "absent") =>
            /\ req[i].calls.run <= 1
            /\ req[i].pc \in {"ai", "ledger", "done"} => req[i].calls.run = 1
            /\ CanProceed(i)
            /\ (Done(i) /\ req[i].outcome.run = "resolved") =>
                  req[i].resp = Ok(req[i].result, "ai", req[i].model)
            /\ req[i].cacheKey \in DOMAIN cache =>
                  /\ writer[req[i].cacheKey] \in {i, j}
                  /\ cache[req[i].cacheKey].value = req[writer[req[i].cacheKey]].result

C14_Witness ==
    \E i, j \in Reqs :
        /\ i # j
        /\ req[i].cacheKey = req[j].cacheKey
        /\ req[i].seen.state = "absent" /\ req[j].seen.state = "absent"
        /\ Done(i) /\ Done(j)
        /\ req[i].resp.source = "ai" /\ req[j].resp.source = "ai"
        /\ req[i].resp.result # req[j].resp.result
        /\ writer[req[i].cacheKey] = i
        /\ cache[req[i].cacheKey].value = req[i].resp.result

\* C15: a request whose model and first 50 characters of prompt are those of
\* an earlier request derives that request's key; when the entry that request
\* wrote is in the Map and has not expired, it is answered that request's
\* result with source "cache", whatever follows the 50th character.
C15_KeyIsModelAndPrefix ==
    [][\A i, j \in Reqs :
          (/\ i # j
           /\ req[i].pc = "parsing"
           /\ req'[i].calls.getCached = 1
           /\ req[j].calls.getCached = 1
           /\ req'[i].model = req[j].model
           /\ Substring(req'[i].prompt, 0, 50) = Substring(req[j].prompt, 0, 50)) =>
              /\ req'[i].cacheKey = req[j].cacheKey
              /\ (/\ req[j].cacheKey \in DOMAIN cache
                  /\ writer[req[j].cacheKey] = j
                  /\ now <= cache[req[j].cacheKey].expiry) =>
                     /\ req'[i].pc = "done"
                     /\ req'[i].resp = Ok(req[j].result, "cache", req[j].model)]_vars

C15_Witness ==
    \E i, j \in Reqs :
        /\ req[j].prompt = LongPromptA
        /\ req[i].prompt = LongPromptB
        /\ req[j].resp.source = "ai"
        /\ req[i].resp.source = "cache"
        /\ req[i].seen.by = j
        /\ req[i].resp.result = req[j].result

\* C16: while env.AI.run is called for a request, the prompt in the call's
\* arguments is the prompt of the request's body, whatever the configuration
\* holds.
C16_PromptIsTheRequests ==
    \A i \in Reqs :
        req[i].pc = "ai" =>
            /\ req[i].prompt = req[i].body.json.prompt
            /\ req[i].aiArgs.prompt = req[i].body.json.prompt

\* C17: the step in which a request's env.AI.run call resolves at time t
\* leaves under the request's key the entry (result, t + 3600 s); an entry
\* that a step creates or changes is the entry such a step writes.
C17_EntryIsResultAndFixedExpiry ==
    [][/\ \A i \in Reqs :
             (req[i].pc = "ai" /\ req'[i].outcome.run = "resolved") =>
                 /\ req'[i].calls.setCache = 1
                 /\ req[i].cacheKey \in DOMAIN cache'
                 /\ cache'[req[i].cacheKey] =
                       [value |-> req'[i].result, expiry |-> now + 3600 * 1000]
       /\ \A k \in DOMAIN cache' :
             (k \notin DOMAIN cache \/ cache'[k] # cache[k]) =>
                 \E i \in Reqs :
                     /\ req[i].pc = "ai"
                     /\ req'[i].outcome.run = "resolved"
                     /\ req[i].cacheKey = k]_vars

C17_Witness ==
    \E i \in Reqs :
        /\ Done(i)
        /\ req[i].resp.source = "ai"
        /\ now > 0
        /\ req[i].cacheKey \in DOMAIN cache
        /\ cache[req[i].cacheKey] = [value |-> req[i].result, expiry |-> now + TtlMs]

\* C18: a request calls getGistConfig at most once, only with GIST_ID and
\* GITHUB_TOKEN set and after its lookup returned nothing, and calls
\* env.AI.run only once that call has settled; without GIST_ID or
\* GITHUB_TOKEN it never calls getGistConfig and calls env.AI.run with the
\* empty configuration.
C18_ConfigFetchedAtMostOnce ==
    \A i \in Reqs :
        /\ req[i].calls.getGistConfig <= 1
        /\ req[i].calls.getGistConfig = 1 =>
              /\ env.gist
              /\ req[i].calls.getCached = 1
              /\ req[i].seen.state \in {"absent", "expired"}
        /\ req[i].pc = "config" =>
              /\ req[i].calls.getGistConfig = 1
              /\ req[i].outcome.gist = "pending"
              /\ req[i].calls.run = 0
        /\ (env.gist /\ req[i].calls.run > 0) =>
              /\ req[i].calls.getGistConfig = 1
              /\ req[i].outcome.gist \in {"ok", "failed"}
        /\ ~env.gist =>
              /\ req[i].calls.getGistConfig = 0
              /\ req[i].outcome.gist = "none"
              /\ req[i].pc = "ai" =>
                    /\ req[i].config = <<>>
                    /\ req[i].aiArgs = AiArgs(req[i].body.json, <<>>)

C18_Witness ==
    \E i \in Reqs :
        /\ req[i].seen.state = "absent"
        /\ req[i].calls.getGistConfig = 1
        /\ req[i].outcome.gist = "ok"
        /\ req[i].calls.run = 1
        /\ Done(i)
        /\ req[i].resp.source = "ai"

\* C19: when env.AI.run resolves with a payload that has a `response` field
\* the request's result is that field, and when it resolves with a payload
\* without one the result is the payload's JSON text.
C19_ResultIsResponseField ==
    [][\A i \in Reqs, p \in Payloads :
          ModelReturn(i, p) =>
              req'[i].result = IF Has(p, "response") THEN p.response
                               ELSE JSONStringify(p)]_vars

\* C20: an entry leaves the Map only in the step of a request that looks up
\* the entry's own key after its expiry, and changes only in the step of a
\* request that writes that key; a lookup of one key and the passing of time
\* leave the entries of all other keys as they are.
C20_ExpiryIsLazy ==
    [][/\ \A k \in DOMAIN cache :
             /\ k \notin DOMAIN cache' =>
                   /\ now > cache[k].expiry
                   /\ \E i \in Reqs : /\ req[i].pc = "parsing"
                                      /\ req'[i].calls.getCached = 1
                                      /\ req'[i].cacheKey = k
             /\ (k \in DOMAIN cache' /\ cache'[k] # cache[k]) =>
                   \E i \in Reqs : /\ req[i].pc = "ai"
                                   /\ req'[i].calls.setCache = 1
                                   /\ req[i].cacheKey = k
             /\ \A i \in Reqs :
                   (/\ req[i].pc = "parsing"
                    /\ req'[i].calls.getCached = 1
                    /\ req'[i].cacheKey # k) =>
                       k \in DOMAIN cache' /\ cache'[k] = cache[k]
       /\ now' # now => cache' = cache]_vars

C20_Witness ==
    \E k \in DOMAIN cache, i \in Reqs :
        /\ now > cache[k].expiry
        /\ req[i].calls.getCached = 1
        /\ req[i].cacheKey # k
        /\ req[i].cacheKey \in DOMAIN cache
        /\ writer[req[i].cacheKey] = i
        /\ cache[req[i].cacheKey].expiry > now

\* C21: the step in which a request is answered from the Map leaves the Map
\* as it was: the entry served keeps its value and its expiry, which is not
\* earlier than the time of the lookup.
C21_HitLeavesCacheUnchanged ==
    [][\A i \in Reqs :
          (req[i].pc = "parsing" /\ req'[i].resp.source = "cache") =>
              /\ cache' = cache
              /\ req'[i].cacheKey \in DOMAIN cache
              /\ req'[i].resp.result = cache[req'[i].cacheKey].value
              /\ now <= cache[req'[i].cacheKey].expiry
              /\ cache'[req'[i].cacheKey].expiry = req'[i].seen.expiry]_vars

C21_Witness ==
    \E i \in Reqs :
        /\ req[i].resp.source = "cache"
        /\ req[i].seen.at > 0
        /\ req[i].cacheKey \in DOMAIN cache
        /\ cache[req[i].cacheKey] =
              [value |-> req[i].resp.result, expiry |-> req[i].seen.at]

\* C22: two requests that differ in their model or in the first 50
\* characters of their prompt have different keys, and a request answered
\* from the Map has the model of the request that wrote the entry.
C22_DistinctPairsDistinctKeys ==
    \A i, j \in Reqs :
        (/\ req[i].calls.getCached = 1
         /\ req[j].calls.getCached = 1
         /\ <<req[i].model, Substring(req[i].prompt, 0, 50)>>
               # <<req[j].model, Substring(req[j].prompt, 0, 50)>>) =>
            /\ req[i].cacheKey # req[j].cacheKey
            /\ (req[i].resp.source = "cache" /\ req[i].seen.by = j) =>
                  req[i].model = req[j].model

\* C23: when every awaited call settles, a request that has arrived ends
\* with a response; a request has a response exactly when it has ended, and
\* its response never changes afterwards.
C23_EveryRequestAnswersOnce ==
    /\ \A i \in Reqs : (req[i].pc = "parsing") ~> Done(i)
    /\ [][\A i \in Reqs :
             /\ req[i].resp # NoResponse =>
                   req'[i].resp = req[i].resp /\ req'[i].pc = "done"
             /\ (req'[i].pc = "done") <=> (req'[i].resp # NoResponse)]_vars

C23_Witness ==
    \E i, j \in Reqs :
        /\ Done(i) /\ Done(j)
        /\ req[i].calls = [getCached |-> 1, getGistConfig |-> 1, run |-> 1,
                           setCache |-> 1, put |-> 1]
        /\ req[i].resp.status = 200
        /\ req[j].outcome.run = "rejected"
        /\ req[j].resp.status = 500

\* C24: no entry of the Map holds the empty string, and a lookup that finds
\* an entry of its key that has not expired is answered from it.
C24_StoredValuesNonEmpty ==
    [][/\ \A k \in DOMAIN cache' : Len(cache'[k].value) > 0
       /\ \A i \in Reqs :
             (/\ req[i].pc = "parsing"
              /\ req'[i].calls.getCached = 1
              /\ req'[i].cacheKey \in DOMAIN cache
              /\ now <= cache[req'[i].cacheKey].expiry) =>
                 /\ req'[i].pc = "done"
                 /\ req'[i].resp.source = "cache"
                 /\ req'[i].resp.result = cache[req'[i].cacheKey].value]_vars

C24_Witness ==
    \E i, j \in Reqs :
        /\ i # j
        /\ req[j].result = JSONStringify([response |-> ""])
        /\ req[j].cacheKey \in DOMAIN cache
        /\ cache[req[j].cacheKey].value = req[j].result
        /\ req[i].resp.source = "cache"
        /\ req[i].seen.by = j

====
